---- MODULE Spec2Model ----
(***************************************************************************)
(* Model of the kc command line (keycloak-cli): one top-level invocation   *)
(* of a batch command (roles, users, clients, client-roles, client-scopes; *)
(* create, update, delete) run against a Keycloak backend, from cobra's    *)
(* PersistentPreRunE to the process exit, optionally followed by a re-run  *)
(* of the identical command line.                                          *)
(*                                                                         *)
(* Every remote call (login, realm listing, probe, mutation, follow-up) is *)
(* one step; its answer is chosen by the backend.  The error return of a   *)
(* RunE body and the withErrorEnd wrapper around it are part of the step   *)
(* that fails.                                                             *)
(***************************************************************************)
EXTENDS Integers, Sequences, FiniteSets

\* ------------------------------------------------------------------ bounds
\* largest number of primary identifiers (--name / --username / --client-id)
MaxN == 3
\* largest number of values given for one optional attribute flag
MaxL == 3
\* number of times the same command line is run in one behaviour
MaxRuns == 2
\* largest number of remote calls of one invocation that fail for a reason
\* of their own (the calls after the deadline are not counted)
MaxFaults == 1
\* largest password length asked of generateStrongPassword on its own
MaxGen == 6
\* largest number of characters of a string given to validatePasswordStrength
\* on its own
MaxPw == 6
\* number of invocations that append to the audit file at the same time
MaxProcs == 3
\* largest number of lines given to RenderBox on its own
MaxLines == 2

\* ------------------------------------------------------------- value sets
Realms == {"r1", "r2"}
Keys == {"a", "b"}

Resources == {"roles", "users", "clients", "client-roles", "client-scopes"}

\* the batch commands registered by the init() functions
Commands ==
  {[res |-> r, verb |-> v] : r \in Resources \ {"client-roles"}, v \in {"create", "update", "delete"}}
    \cup {[res |-> "client-roles", verb |-> "create"]}

\* the identifier lists tried: the first n of a, b, a, b, ... (n = 0 is a
\* command line without identifier flag); from n = 3 on a key is repeated
IdPattern(n) == [i \in 1..n |-> IF i % 2 = 1 THEN "a" ELSE "b"]
IdLists == {IdPattern(n) : n \in 0..MaxN}

\* the optional per-item attribute flags of each command.  Flags that the
\* loop body binds with the same statement stand together under one name:
\* "email" for --email, --first-name and --last-name of users; "name" for
\* the ten flags of clients bound by pick before the call (--name, --public,
\* --enabled, --protocol, --root-url, --base-url, --standard-flow,
\* --direct-access, --implicit-flow, --service-accounts) and, in clients
\* create, --secret, which is bound with them; clients update picks --secret
\* after its call
Attrs(c) ==
  CASE c.res = "roles" /\ c.verb = "create" -> {"description"}
    [] c.res = "roles" /\ c.verb = "update" -> {"description", "new-name"}
    [] c.res = "users" /\ c.verb \in {"create", "update"} -> {"email", "password"}
    [] c.res = "clients" /\ c.verb = "create" -> {"name"}
    [] c.res = "clients" /\ c.verb = "update" -> {"name", "secret", "new-client-id"}
    [] c.res = "client-roles" /\ c.verb = "create" -> {"description"}
    [] c.res = "client-scopes" /\ c.verb = "create" -> {"description", "protocol"}
    [] c.res = "client-scopes" /\ c.verb = "update" -> {"description", "protocol", "new-name"}
    [] OTHER -> {}

\* attributes whose value replaces the natural key of the item
RenameAttrs == {"new-name", "new-client-id"}

\* passwords are strings of characters; two samples, one per verdict
WeakPw == <<"a", "b", "c", "d", "e", "f">>
StrongPw == <<"a", "B", "1", "!", "c", "d">>

PlainValues == <<"v1", "v2", "v3", "v4", "v5", "v6">>

\* the value list given for attribute a with l values: all different for a
\* plain attribute, alternating keys for a rename, alternating strong and
\* weak passwords for --password
ValueList(a, l) ==
  [i \in 1..l |->
     IF a \in RenameAttrs THEN (IF i % 2 = 1 THEN "b" ELSE "a")
     ELSE IF a = "password" THEN (IF i % 2 = 1 THEN StrongPw ELSE WeakPw)
     ELSE PlainValues[i]]

\* the other flags of a command line: role assignments (users create),
\* --enabled (users update), redirect URIs and web origins (clients), a
\* client-roles create without --client-id.  An update reads them only to
\* see that something is to be updated, so they are tried where no
\* attribute flag is given.
ExtrasOf(c) ==
  CASE c.res = "users" /\ c.verb = "create" ->
         {"none", "realm-role", "client-role", "client-role-no-client-id"}
    [] c.res = "users" /\ c.verb = "update" -> {"none", "enabled"}
    [] c.res = "clients" /\ c.verb \in {"create", "update"} -> {"none", "uris"}
    [] c.res = "client-roles" -> {"none", "no-client-id"}
    [] OTHER -> {"none"}

\* --realm is a single string for roles, client-roles and client-scopes and
\* a repeatable list for users and clients
ListRealmFlag(res) == res \in {"users", "clients"}

\* the realm selections tried: --all-realms, one --realm, two --realm (list
\* flag only), the realm of config.json, and none at all
RealmSelections(res) ==
  {[all |-> TRUE, flag |-> <<>>, cfg |-> ""],
   [all |-> TRUE, flag |-> <<"r1">>, cfg |-> ""],
   [all |-> FALSE, flag |-> <<"r1">>, cfg |-> "r2"],
   [all |-> FALSE, flag |-> <<>>, cfg |-> "r2"],
   [all |-> FALSE, flag |-> <<>>, cfg |-> ""]}
    \cup (IF ListRealmFlag(res)
                 THEN {[all |-> FALSE, flag |-> <<"r2", "r1">>, cfg |-> ""],
                       [all |-> FALSE, flag |-> <<"r1", "r1">>, cfg |-> ""]}
                 ELSE {})

\* the realm lists the backend may hold
RealmListings == {<<>>, <<"r1", "r2">>}

\* ---------------------------------------------------------------- state
VARIABLES
  cmd,            \* the command being run: [res, verb]
  ids,            \* primary identifier list (roleNames, usernames, cliIDs, ...)
  attr,           \* the optional attribute flag that was given ("none": no flag)
  vals,           \* the values given for attr
  ignoreMissing,  \* --ignore-missing
  extras,         \* follow-up flags (--realm-role, --client-role, --redirect-uri, ...)
  allRealms,      \* --all-realms
  cmdRealms,      \* the command's own --realm flag
  cfgRealm,       \* config.Global.Realm
  pc,             \* position of the invocation
  targetRealms,   \* resolved realm list
  ri,             \* index of the realm being processed (1-based)
  ii,             \* index of the identifier being processed (1-based)
  fu,             \* index of the next follow-up call of the current item
  mutated,        \* created / updated / deleted counter
  skipped,        \* skipped counter
  out,            \* lines written to the command's output
  lines,          \* lines buffered for printBox
  log,            \* START / ERROR / END lines of the mirrored log
  logOpen,        \* logDest is an open file
  err,            \* the error RunE returned ("" when none)
  exitCode,       \* process exit code (-1 while running)
  audit,          \* rows of the audit store
  backend,        \* natural keys present in the backend: set of <<realm, key>>
  realmList,      \* the realms of the backend, as GetRealms lists them
  calls,          \* history: remote calls issued by the current invocation
  raced,          \* history: another writer changed the backend during a call
  backend0,       \* history: the backend when the current invocation started
  run,            \* number of the current run
  first,          \* history: result of the first run
  length,         \* generateStrongPassword: the length n asked for
  draws,          \* generateStrongPassword: the numbers read from rand.Reader
  generated,      \* generateStrongPassword: the password returned
  accepted,       \* validatePasswordStrength: its answer for the password
  gpc,            \* where the generator's run stands ("off": not running)
  csvExists,      \* audit.Append: whether the file csvPath exists
  csvRows,        \* audit.Append: the rows of the file csvPath
  fileExists,     \* audit.Append: what os.Stat told each invocation
  apc,            \* audit.Append: where each invocation's call stands
  configFile,     \* config.Load: the configuration file as it is on disk
  Global,         \* config.Global
  invoked,        \* the command of the invocation whose audit entry is built
  entry,          \* the audit.Entry appendAudit builds
  requests,       \* the remote requests the command body has sent
  ipc,            \* where the invocation with this configuration stands
  boxLines,       \* RenderBox: the lines it is given
  opts,           \* RenderBox: the BoxOptions it is given
  box,            \* RenderBox: the string it returns
  bpc             \* where the call of RenderBox stands

genVars == <<length, draws, generated, accepted, gpc>>
csvVars == <<csvExists, csvRows, fileExists, apc>>
cfgVars == <<configFile, Global, invoked, entry, requests, ipc>>
boxVars == <<boxLines, opts, box, bpc>>
sideVars == <<csvVars, cfgVars, boxVars>>
flagVars == <<cmd, ids, attr, vals, ignoreMissing, extras, allRealms, cmdRealms, cfgRealm>>
loopVars == <<targetRealms, ri, ii, fu, mutated, skipped>>
ioVars == <<out, lines, log, logOpen, err, exitCode, audit>>
histVars == <<calls, raced, backend0, run, first>>
vars == <<flagVars, loopVars, ioVars, histVars, pc, backend, realmList, genVars, sideVars>>

N == Len(ids)

\* the 1-based position of pair (r, i) in realm-major, item-minor order
PairIndex(r, i) == (r - 1) * N + i

NoFirst == [status |-> "none", mutated |-> 0, raced |-> FALSE, r |-> 0, i |-> 0]

\* no invocation is appending to the audit file
CsvIdle ==
  /\ csvExists = FALSE
  /\ csvRows = <<>>
  /\ fileExists = <<>>
  /\ apc = <<>>

\* the zero value of config.Config
ZeroConfig ==
  [ServerURL |-> "", AuthRealm |-> "", Realm |-> "", ClientID |-> "",
   ClientSecret |-> "", Username |-> "", Password |-> "", GrantType |-> ""]

NoFile ==
  [state |-> "missing", server_url |-> "", auth_realm |-> "", realm |-> "",
   client_id |-> "", client_secret |-> "", username |-> "", password |-> "",
   grant_type |-> ""]

NoEntry == [ActorType |-> "", ActorID |-> "", AuthRealm |-> "", ChangeKind |-> ""]

\* no invocation is loading a configuration
ConfigIdle ==
  /\ configFile = NoFile
  /\ Global = ZeroConfig
  /\ invoked = [res |-> "", verb |-> ""]
  /\ entry = NoEntry
  /\ requests = <<>>
  /\ ipc = "off"

\* no box is being rendered
BoxIdle ==
  /\ boxLines = <<>>
  /\ opts = [JiraTicket |-> <<>>, Realm |-> <<>>, Title |-> <<>>]
  /\ box = <<>>
  /\ bpc = "off"

SideIdle == CsvIdle /\ ConfigIdle /\ BoxIdle

\* the realms the command line, the configuration or the listing name: the
\* items of the other realms are out of the command's reach and left out
Named ==
  IF allRealms THEN {realmList[k] : k \in 1..Len(realmList)}
  ELSE IF cmdRealms # <<>> THEN {cmdRealms[k] : k \in 1..Len(cmdRealms)}
  ELSE {cfgRealm} \ {""}

\* the keys the command line names, as identifiers or as new names
Reach ==
  {ids[k] : k \in 1..Len(ids)}
    \cup (IF attr \in RenameAttrs THEN {vals[k] : k \in 1..Len(vals)} ELSE {})

Init ==
  /\ cmd \in Commands
  /\ ids \in IdLists
  /\ \E l \in 0..MaxL :
       /\ attr \in (IF l = 0 THEN {"none"} ELSE Attrs(cmd))
       /\ vals = ValueList(attr, l)
  /\ ignoreMissing \in (IF cmd.verb = "create" THEN {FALSE} ELSE BOOLEAN)
  /\ extras \in (IF cmd.verb = "update" /\ attr # "none" THEN {"none"} ELSE ExtrasOf(cmd))
  /\ \E sel \in RealmSelections(cmd.res) :
       /\ allRealms = sel.all
       /\ cmdRealms = sel.flag
       /\ cfgRealm = sel.cfg
  /\ pc = "prerun"
  /\ targetRealms = <<>>
  /\ ri = 1 /\ ii = 1 /\ fu = 1
  /\ mutated = 0 /\ skipped = 0
  /\ out = <<>> /\ lines = <<>> /\ log = <<>>
  /\ logOpen = FALSE
  /\ err = ""
  /\ exitCode = -1
  /\ audit = <<>>
  /\ realmList \in (IF ~allRealms THEN {<<"r1", "r2">>}
                    ELSE IF cmdRealms = <<>> THEN RealmListings
                    ELSE {<<"r2">>})
  /\ backend \in SUBSET (Named \X Reach)
  /\ backend0 = backend
  /\ calls = <<>>
  /\ raced = FALSE
  /\ run = 1
  /\ first = NoFirst
  /\ length = 0
  /\ draws = <<>>
  /\ generated = <<>>
  /\ accepted = ""
  /\ gpc = "off"
  /\ SideIdle

\* the persistent --realm flag of the root command: every batch command
\* registers a local --realm flag of the same name, which hides it
defaultRealm == ""

\* ------------------------------------------------------------ field binder
\* the cardinality rule written out in the RunE bodies
CardinalityOk(l, n) == l = 0 \/ l = 1 \/ l = n

\* commands that apply the cardinality rule to their attribute lists; the
\* clients commands bind with pick and validate nothing
ValidatesCardinality(c) == c.res # "clients"

\* the zero value of an attribute: the empty string (of characters, for a
\* password)
Zero(a) == IF a = "password" THEN <<>> ELSE ""

\* faulty variant: a single value is given to the first item only
BindChain_FirstOnly(vs, n, i, zero) ==
  IF Len(vs) = 1 THEN (IF i = 1 THEN vs[1] ELSE zero)
  ELSE IF Len(vs) = n THEN vs[i]
  ELSE zero

\* the if / else-if chain of roles, users, client-roles and client-scopes:
\* value of item i (1-based), the zero value when the attribute is left at
\* its default
BindChain(vs, n, i, zero) ==
  IF Len(vs) = 1 THEN vs[1]
  ELSE IF Len(vs) = n THEN vs[i]
  ELSE zero

\* pick(vals, i) of the clients commands: [v, ok, panics]; Go's index i is
\* the 1-based i here, so vals[i] is out of range when i > len(vals)
pick(vs, i, zero) ==
  IF Len(vs) = 1 THEN [v |-> vs[1], ok |-> TRUE, panics |-> FALSE]
  ELSE IF Len(vs) > 1 THEN
    IF i <= Len(vs) THEN [v |-> vs[i], ok |-> TRUE, panics |-> FALSE]
    ELSE [v |-> zero, ok |-> FALSE, panics |-> TRUE]
  ELSE [v |-> zero, ok |-> FALSE, panics |-> FALSE]

\* the value the loop body binds for item i of the current command
Bound(i) ==
  IF cmd.res = "clients" THEN pick(vals, i, Zero(attr)).v
  ELSE BindChain(vals, N, i, Zero(attr))

\* ---------------------------------------------------------------- passwords
\* the alphabets of generateStrongPassword
LowerPool == <<"a", "b", "c", "d", "e", "f", "g", "h", "i", "j", "k", "l", "m",
               "n", "o", "p", "q", "r", "s", "t", "u", "v", "w", "x", "y", "z">>
UpperPool == <<"A", "B", "C", "D", "E", "F", "G", "H", "I", "J", "K", "L", "M",
               "N", "O", "P", "Q", "R", "S", "T", "U", "V", "W", "X", "Y", "Z">>
DigitPool == <<"0", "1", "2", "3", "4", "5", "6", "7", "8", "9">>
SpecialPool == <<"!", "@", "#", "$", "%", "^", "&", "*", "(", ")", "-", "_", "=", "+",
                 "[", "]", "{", "}", "|", ";", ":", ",", ".", "<", ">", "/", "?">>
AllPool == LowerPool \o UpperPool \o DigitPool \o SpecialPool
Pools == <<LowerPool, UpperPool, DigitPool, SpecialPool>>

\* a character outside ASCII: "e-acute" stands for U+00E9, a lowercase
\* letter that takes two bytes in a Go string
NonAscii == {"e-acute"}

\* unicode.IsLower / IsUpper / IsDigit over the characters used here
LowerChars == {LowerPool[k] : k \in 1..Len(LowerPool)} \cup NonAscii
UpperChars == {UpperPool[k] : k \in 1..Len(UpperPool)}
DigitChars == {DigitPool[k] : k \in 1..Len(DigitPool)}

\* len(pw): the number of bytes of the string, one for each character and
\* one more for each character of NonAscii
ByteLen(pw) == Len(pw) + Len(SelectSeq(pw, LAMBDA ch : ch \in NonAscii))

\* validatePasswordStrength: "" when accepted, else the error
validatePasswordStrength(pw) ==
  IF ByteLen(pw) < 6 THEN "too-short"
  ELSE IF /\ \E k \in 1..Len(pw) : pw[k] \in LowerChars
          /\ \E k \in 1..Len(pw) : pw[k] \in UpperChars
          /\ \E k \in 1..Len(pw) : pw[k] \in DigitChars
          /\ \E k \in 1..Len(pw) : pw[k] \notin (LowerChars \cup UpperChars \cup DigitChars)
       THEN ""
       ELSE "missing-class"

\* the character classes the text of an error of validatePasswordStrength
\* names
MessageClasses(e) ==
  IF e = "missing-class" THEN {"lowercase", "uppercase", "digit", "special"} ELSE {}

\* ------------------------------------------------------- ends of a command
\* rows the current invocation appended to the audit store
AuditOfRun == SelectSeq(audit, LAMBDA e : e.run = run)

\* the target-realm label of the audit entry: the root command's --realm,
\* else the realm of config.json, else empty
resolveTargetRealms == IF defaultRealm # "" THEN defaultRealm ELSE cfgRealm

\* the audit entry appendAudit builds for the current run
AuditEntry(status) ==
  [status |-> status, run |-> run, realms |-> resolveTargetRealms]

\* faulty variant: the error path undoes what the invocation applied
Fail_Compensating(e, be) ==
  /\ pc' = "exit"
  /\ backend' = backend0
  /\ err' = e
  /\ log' = log \o <<"ERROR", "END:error">>
  /\ audit' = Append(audit, AuditEntry("error"))
  /\ exitCode' = 1
  /\ UNCHANGED <<sideVars, genVars, flagVars, loopVars, out, lines, logOpen, run, first, backend0, realmList>>

\* RunE returns error e, the calls made so far having left the backend be:
\* withErrorEnd writes ERROR and END and appends the audit entry, cobra skips
\* the post-run hooks and Execute exits with code 1.  Nothing is called.
Fail(e, be) ==
  /\ pc' = "exit"
  /\ backend' = be
  /\ err' = e
  /\ log' = log \o <<"ERROR", "END:error">>
  /\ audit' = Append(audit, AuditEntry("error"))
  /\ exitCode' = 1
  /\ UNCHANGED <<sideVars, genVars, flagVars, loopVars, out, lines, logOpen, run, first, backend0, realmList>>

\* an index out of range in pick: the Go runtime ends the process with
\* code 2; no deferred writer, wrapper or hook of the command runs
Panic(be) ==
  /\ pc' = "exit"
  /\ backend' = be
  /\ err' = "panic"
  /\ exitCode' = 2
  /\ UNCHANGED <<sideVars, genVars, flagVars, loopVars, out, lines, log, logOpen, audit, run, first,
                 backend0, realmList>>

\* a remote call and its answer, for pair (r, i); r = i = 0 outside the loop.
\* v is the attribute value and pw the password the request carries (the
\* zero value and no password unless the call is given one)
Call(op, r, i, ans) ==
  [op |-> op, r |-> r, i |-> i, ans |-> ans,
   v |-> IF attr = "password" THEN <<>> ELSE "", pw |-> <<>>]

\* --------------------------------------------------------- PersistentPreRunE
\* config.Load, setupTeeWriters, START line.  When either fails cobra
\* returns the error before RunE and Execute exits with code 1.
PersistentPreRunE ==
  /\ pc = "prerun"
  /\ \E outcome \in {"ok", "config-error", "log-file-error"} :
       IF outcome = "ok"
       THEN /\ logOpen' = TRUE
            /\ log' = Append(log, "START")
            /\ pc' = "validate"
            /\ UNCHANGED <<err, exitCode>>
       ELSE /\ pc' = "exit"
            /\ err' = outcome
            /\ exitCode' = 1
            /\ UNCHANGED <<log, logOpen>>
  /\ UNCHANGED <<sideVars, genVars, flagVars, loopVars, out, lines, audit, histVars, backend, realmList>>

\* ------------------------------------------------------- RunE: validation
\* the checks each RunE makes before it logs in, in source order
ValidationError ==
  IF cmd.res = "client-roles" /\ extras = "no-client-id" THEN "missing-client-id"
  ELSE IF N = 0 THEN "missing-identifier"
  ELSE IF /\ cmd.verb = "update"
          /\ attr = "none"
          /\ extras = "none" THEN "nothing-to-update"
  ELSE IF ValidatesCardinality(cmd) /\ ~CardinalityOk(Len(vals), N) THEN "cardinality"
  ELSE ""

Validate ==
  /\ pc = "validate"
  /\ IF ValidationError # ""
     THEN Fail(ValidationError, backend)
     ELSE /\ pc' = "login"
          /\ UNCHANGED <<sideVars, genVars, flagVars, loopVars, ioVars, run, first, backend, backend0, realmList>>
  /\ UNCHANGED <<calls, raced>>

\* ------------------------------------------------------------ RunE: login
Login ==
  /\ pc = "login"
  /\ \E ans \in {"ok", "error"} :
       /\ calls' = Append(calls, Call("Login", 0, 0, ans))
       /\ IF ans = "ok"
          THEN /\ pc' = "resolve"
               /\ UNCHANGED <<sideVars, genVars, flagVars, loopVars, ioVars, run, first, backend, backend0, realmList>>
          ELSE Fail("login", backend)
  /\ UNCHANGED raced

\* ------------------------------------------------- RunE: target realms
\* resolveRealmsForClients and resolveCSRealms log in a second time before
\* they list the realms; the other commands list with the RunE's client
ResolverLogsIn(c) == c.res \in {"clients", "client-scopes"}

\* faulty variant: the configured realm is not consulted
FallbackRealm_FlagOnly == defaultRealm

\* the realm used when neither --all-realms nor --realm is given
FallbackRealm == IF defaultRealm # "" THEN defaultRealm ELSE cfgRealm

\* commands that delete without probing: DeleteRealmRole is called at once
HasProbe(c) == ~(c.res = "roles" /\ c.verb = "delete")

ItemPc == IF HasProbe(cmd) THEN "probe" ELSE "mutate"

\* where the loop goes at the start of realm r of the list trs
LoopEntry(trs, r) ==
  IF r > Len(trs) THEN "finish"
  ELSE IF cmd.res = "client-roles" THEN "lookup"
  ELSE ItemPc

ResolveRealms ==
  /\ pc = "resolve"
  /\ IF allRealms
     THEN \E outcome \in {"ok", "list-error"} \cup (IF ResolverLogsIn(cmd) THEN {"login-error"} ELSE {}) :
            /\ calls' = calls
                 \o (IF ResolverLogsIn(cmd)
                     THEN <<Call("Login", 0, 0, IF outcome = "login-error" THEN "error" ELSE "ok")>>
                     ELSE <<>>)
                 \o (IF outcome = "login-error" THEN <<>>
                     ELSE <<Call("GetRealms", 0, 0, IF outcome = "ok" THEN "ok" ELSE "error")>>)
            /\ IF outcome = "ok"
               THEN /\ targetRealms' = realmList
                    /\ pc' = LoopEntry(realmList, 1)
                    /\ UNCHANGED <<sideVars, genVars, flagVars, ri, ii, fu, mutated, skipped, ioVars, run, first,
                                   backend, backend0, realmList>>
               ELSE Fail("resolve", backend)
     ELSE /\ calls' = calls
          /\ IF cmdRealms # <<>>
             THEN /\ targetRealms' = cmdRealms
                  /\ pc' = LoopEntry(cmdRealms, 1)
                  /\ UNCHANGED <<sideVars, genVars, flagVars, ri, ii, fu, mutated, skipped, ioVars, run, first,
                                 backend, backend0, realmList>>
             ELSE IF FallbackRealm # ""
             THEN /\ targetRealms' = <<FallbackRealm>>
                  /\ pc' = LoopEntry(<<FallbackRealm>>, 1)
                  /\ UNCHANGED <<sideVars, genVars, flagVars, ri, ii, fu, mutated, skipped, ioVars, run, first,
                                 backend, backend0, realmList>>
             ELSE Fail("no-realm", backend)
  /\ UNCHANGED raced

\* ---------------------------------------------------------- RunE: the loop
\* the deadline of the RunE's context (context.WithTimeout) has elapsed: a
\* remote call of the loop has come back with the context's error
Expired == \E k \in 1..Len(calls) : calls[k].ans = "timeout"

\* the calls of the loop that failed so far and let the command go on
Faults == Cardinality({k \in 1..Len(calls) : calls[k].ans = "error"})

\* the answers a remote call of the loop can come back with, S being the
\* backend's answers: the deadline elapses between two calls, and from then
\* on every call returns the context's error without reaching the backend
Answers(S) ==
  IF Expired THEN {"timeout"}
  ELSE (IF Faults < MaxFaults THEN S ELSE S \ {"error"}) \cup {"timeout"}

realm == targetRealms[ri]
key == ids[ii]
Present == <<realm, key>> \in backend

Line(kind) == [kind |-> kind, r |-> ri, i |-> ii]

\* commands that collect their lines and print them with printBox
Buffers(c) == c.res \in {"users", "clients", "client-roles"}

\* skip lines written straight to the output: all lines of the commands
\* without box, the 409 skips of users and clients create, and the
\* not-found skip of clients delete
SkipDirect(c, reason) ==
  \/ ~Buffers(c)
  \/ reason = "conflict"
  \/ c.res = "clients" /\ c.verb = "delete" /\ reason = "missing"

\* move to the next identifier, or to the next realm
Advance ==
  /\ fu' = 1
  /\ IF ii < N
     THEN /\ ii' = ii + 1
          /\ ri' = ri
          /\ pc' = ItemPc
     ELSE /\ ii' = 1
          /\ ri' = ri + 1
          /\ pc' = LoopEntry(targetRealms, ri + 1)
  /\ UNCHANGED targetRealms

\* faulty variant: the skip branch writes its line and forgets the counter
Skip_NoCount(reason, buffered) ==
  /\ skipped' = skipped
  /\ mutated' = mutated
  /\ IF SkipDirect(cmd, reason)
     THEN /\ out' = Append(out, Line("skipped"))
          /\ lines' = buffered
     ELSE /\ lines' = Append(buffered, Line("skipped"))
          /\ out' = out
  /\ Advance
  /\ UNCHANGED <<sideVars, genVars, flagVars, log, logOpen, err, exitCode, audit, run, first, backend0, realmList>>

\* "... Skipped." line, skipped++, continue
Skip(reason, buffered) ==
  /\ skipped' = skipped + 1
  /\ mutated' = mutated
  /\ IF SkipDirect(cmd, reason)
     THEN /\ out' = Append(out, Line("skipped"))
          /\ lines' = buffered
     ELSE /\ lines' = Append(buffered, Line("skipped"))
          /\ out' = out
  /\ Advance
  /\ UNCHANGED <<sideVars, genVars, flagVars, log, logOpen, err, exitCode, audit, run, first, backend0, realmList>>

\* the lines written when an item was mutated: users create adds the
\* password line, users update the two password lines before its own
MutatedLines ==
  IF cmd.res = "users" /\ cmd.verb = "create"
    THEN <<Line("mutated"), Line("password")>>
  ELSE IF cmd.res = "users" /\ cmd.verb = "update" /\ attr = "password" /\ Bound(ii) # <<>>
    THEN <<Line("password-updated"), Line("password"), Line("mutated")>>
  ELSE <<Line("mutated")>>

\* "Created / Updated / Deleted ..." line, counter++, next item
Record(buffered) ==
  /\ mutated' = mutated + 1
  /\ skipped' = skipped
  /\ IF Buffers(cmd)
     THEN /\ lines' = buffered \o MutatedLines
          /\ out' = out
     ELSE /\ out' = out \o MutatedLines
          /\ lines' = buffered
  /\ Advance
  /\ UNCHANGED <<sideVars, genVars, flagVars, log, logOpen, err, exitCode, audit, run, first, backend0, realmList>>

\* faulty variant: the loop over the roles is entered whatever the lookup
\* answered
LookupClient_Lenient ==
  /\ pc = "lookup"
  /\ \E ans \in Answers({"found", "notfound", "error"}) :
       /\ calls' = Append(calls, Call("getClientByClientID", ri, 0, ans))
       /\ pc' = ItemPc
       /\ UNCHANGED <<sideVars, genVars, flagVars, loopVars, ioVars, run, first, backend, backend0, realmList>>
  /\ UNCHANGED raced

\* client-roles create: getClientByClientID once per realm; the client
\* store is another resource, its answer is the backend's choice
LookupClient ==
  /\ pc = "lookup"
  /\ \E ans \in Answers({"found", "notfound", "error"}) :
       /\ calls' = Append(calls, Call("getClientByClientID", ri, 0, ans))
       /\ IF ans = "found"
          THEN /\ pc' = ItemPc
               /\ UNCHANGED <<sideVars, genVars, flagVars, loopVars, ioVars, run, first, backend, backend0, realmList>>
          ELSE Fail("client-not-found", backend)
  /\ UNCHANGED raced

\* how each command reads the probe's answer: GetRealmRole / GetClientRole
\* tell 404 from other errors, GetUsers fails or returns a list,
\* getClientByClientID and findClientScopeByName return an error for both
ProbeVerdict(c, ans) ==
  IF ans = "found" THEN "found"
  ELSE IF c.res \in {"clients", "client-scopes"} THEN "absent"
  ELSE IF ans = "notfound" THEN "absent"
  ELSE "fatal"

\* what the loop does with an item the probe found
OnFound(c) == IF c.verb = "create" THEN "skip" ELSE "mutate"

\* faulty variant: the flag --ignore-missing is not consulted, absent always aborts
OnAbsent_NoSkip(c, ign) ==
  IF c.verb = "create" THEN "mutate"
  ELSE "abort"

\* what the loop does with an item the probe did not find
OnAbsent(c, ign) ==
  IF c.verb = "create" THEN "mutate"
  ELSE IF ign THEN "skip"
  ELSE "abort"

Probe ==
  /\ pc = "probe"
  /\ \E ans \in Answers({IF Present THEN "found" ELSE "notfound", "error"}) :
       /\ calls' = Append(calls, Call("Probe", ri, ii, ans))
       /\ LET verdict == ProbeVerdict(cmd, ans)
              todo == IF verdict = "found" THEN OnFound(cmd)
                      ELSE IF verdict = "absent" THEN OnAbsent(cmd, ignoreMissing)
                      ELSE "fatal"
          IN CASE todo = "skip" ->
                    /\ Skip(IF cmd.verb = "create" THEN "exists" ELSE "missing", lines)
                    /\ backend' = backend
               [] todo = "mutate" ->
                    /\ pc' = "mutate"
                    /\ UNCHANGED <<sideVars, genVars, flagVars, loopVars, ioVars, run, first, backend, backend0,
                                   realmList>>
               [] todo = "abort" -> Fail("not-found", backend)
               [] OTHER -> Fail("probe", backend)
  /\ UNCHANGED raced

\* create commands that read a 409 answer of the create call as "already
\* exists" and skip; roles and client-roles create return every error
ConflictIsSkip(c) == c.res \in {"users", "clients", "client-scopes"}

\* faulty variant: the 404 answer of DeleteRealmRole is skipped whatever the flag
OnMutateAnswer_AlwaysSkip(c, ans, ign) ==
  IF ans = "ok" THEN "done"
  ELSE IF c.verb = "create" /\ ans = "conflict" /\ ConflictIsSkip(c) THEN "skip-conflict"
  ELSE IF c.res = "roles" /\ c.verb = "delete" /\ ans = "notfound" THEN "skip-missing"
  ELSE "abort"

\* what the loop does with the answer of the mutating call.  Only roles
\* delete, which does not probe, looks for 404 in the answer.
OnMutateAnswer(c, ans, ign) ==
  IF ans = "ok" THEN "done"
  ELSE IF c.verb = "create" /\ ans = "conflict" /\ ConflictIsSkip(c) THEN "skip-conflict"
  ELSE IF c.res = "roles" /\ c.verb = "delete" /\ ans = "notfound"
    THEN (IF ign THEN "skip-missing" ELSE "abort-not-found")
  ELSE "abort"

\* the key an update leaves the item under: --new-name of roles and
\* client-scopes update is part of the update call
NewKey(i) ==
  IF cmd.verb = "update" /\ attr = "new-name" /\ Bound(i) # "" THEN Bound(i) ELSE ids[i]

\* the backend's answers to the mutating call for the current pair, with the
\* backend it leaves; race: another writer created (deleted) the key after
\* the probe, at most once per invocation
BackendOutcomes ==
  LET k == <<realm, key>>
      nk == <<realm, NewKey(ii)>>
      fails == {[ans |-> "error", be |-> backend, race |-> FALSE]}
  IN CASE cmd.verb = "create" ->
            IF Present
            THEN fails \cup {[ans |-> "conflict", be |-> backend, race |-> FALSE]}
            ELSE fails \cup {[ans |-> "ok", be |-> backend \cup {k}, race |-> FALSE]}
                   \cup (IF raced THEN {}
                         ELSE {[ans |-> "conflict", be |-> backend \cup {k}, race |-> TRUE]})
       [] cmd.verb = "update" ->
            IF Present
            THEN fails
                   \cup (IF nk # k /\ nk \in backend
                         THEN {[ans |-> "conflict", be |-> backend, race |-> FALSE]}
                         ELSE {[ans |-> "ok", be |-> (backend \ {k}) \cup {nk}, race |-> FALSE]})
                   \cup (IF raced THEN {}
                         ELSE {[ans |-> "notfound", be |-> backend \ {k}, race |-> TRUE]})
            ELSE fails \cup {[ans |-> "notfound", be |-> backend, race |-> FALSE]}
       [] OTHER ->
            IF Present
            THEN fails \cup {[ans |-> "ok", be |-> backend \ {k}, race |-> FALSE]}
                   \cup (IF raced THEN {}
                         ELSE {[ans |-> "notfound", be |-> backend \ {k}, race |-> TRUE]})
            ELSE fails \cup {[ans |-> "notfound", be |-> backend, race |-> FALSE]}

\* the answers to the mutating call once the deadline is taken into account
MutateOutcomes ==
  LET late == [ans |-> "timeout", be |-> backend, race |-> FALSE]
  IN IF Expired THEN {late}
     ELSE {o \in BackendOutcomes : o.ans = "error" => Faults < MaxFaults} \cup {late}

\* the password users create / update binds for item i (empty: none given)
PasswordOf(i) == IF attr = "password" THEN BindChain(vals, N, i, <<>>) ELSE <<>>

\* faulty variant: users update sends the password as it came
ValidatesPassword_CreateOnly(c) == c.res = "users" /\ c.verb = "create"

\* commands whose loop body passes the password, given or generated, to
\* validatePasswordStrength before the call that sends it
ValidatesPassword(c) == c.res = "users" /\ c.verb \in {"create", "update"}

\* the length of the passwords users create generates
GeneratedLength == 12

\* faulty variant: every position is filled from the union of the classes
generateStrongPassword_UnionOnly(n, d) ==
  IF n < 4 THEN <<>>
  ELSE [k \in 1..n |-> AllPool[(d[k] % Len(AllPool)) + 1]]

\* generateStrongPassword(n) for the random draws d (d[k]: the k-th number
\* read from rand.Reader): <<>> stands for the error return when n < 4
generateStrongPassword(n, d) ==
  IF n < 4 THEN <<>>
  ELSE [k \in 1..n |->
          IF k <= Len(Pools) THEN Pools[k][(d[k] % Len(Pools[k])) + 1]
          ELSE AllPool[(d[k] % Len(AllPool)) + 1]]

\* the outcome of the random draws followed in the commands: one tape, its
\* numbers all different; GenSpec below runs the generator against every
\* outcome over DrawValues
DrawSamples(n) == {[k \in 1..n |-> 30 * k]}

\* pick calls that come after the update call in clients update
PickedAfterCall(c, a) == c.verb = "update" /\ a \in {"secret", "new-client-id"}

\* the remote calls made for an item after its create / update call
FollowUps(i) ==
  CASE cmd.res = "users" /\ cmd.verb = "create" /\ extras = "realm-role" ->
         <<"GetRealmRole", "AddRealmRoleToUser">>
    [] cmd.res = "users" /\ cmd.verb = "create" /\ extras = "client-role" ->
         <<"getClientByClientID", "GetClientRole", "AddClientRoleToUser">>
    [] cmd.res = "users" /\ cmd.verb = "create" /\ extras = "client-role-no-client-id" ->
         <<"check-client-id">>
    [] cmd.res = "users" /\ cmd.verb = "update" /\ PasswordOf(i) # <<>> ->
         <<"SetPassword">>
    [] cmd.res = "clients" /\ cmd.verb = "create" /\ extras = "uris" ->
         <<"UpdateClient:redirect-uris", "UpdateClient:web-origins">>
    [] cmd.res = "clients" /\ cmd.verb = "update" /\ attr = "new-client-id"
         /\ pick(vals, i, "").ok /\ pick(vals, i, "").v # "" ->
         <<"UpdateClient:rename">>
    [] OTHER -> <<>>

\* the body of the loop from the binding of the attributes to the handling
\* of the answer of the create / update / delete call
Mutate ==
  /\ pc = "mutate"
  /\ LET panics == cmd.res = "clients" /\ attr # "none" /\ pick(vals, ii, Zero(attr)).panics
         generate == cmd.res = "users" /\ cmd.verb = "create" /\ PasswordOf(ii) = <<>>
     IN
     IF panics /\ ~PickedAfterCall(cmd, attr)
     THEN Panic(backend) /\ UNCHANGED <<calls, raced>>
     ELSE \E d \in (IF generate THEN DrawSamples(GeneratedLength) ELSE {<<>>}) :
       LET pw == IF generate THEN generateStrongPassword(GeneratedLength, d) ELSE PasswordOf(ii)
           buffered == IF generate THEN Append(lines, Line("generated")) ELSE lines
       IN
       IF ValidatesPassword(cmd) /\ pw # <<>> /\ validatePasswordStrength(pw) # ""
       THEN Fail("password", backend) /\ UNCHANGED <<calls, raced>>
       ELSE \E o \in MutateOutcomes :
         /\ calls' = Append(calls, [Call(cmd.verb, ri, ii, o.ans) EXCEPT
                                     !.v = Bound(ii),
                                     !.pw = IF cmd.res = "users" /\ cmd.verb = "create"
                                            THEN pw ELSE <<>>])
         /\ raced' = (raced \/ o.race)
         /\ LET todo == OnMutateAnswer(cmd, o.ans, ignoreMissing)
            IN CASE todo = "done" ->
                      IF panics THEN Panic(o.be)
                      ELSE IF FollowUps(ii) # <<>>
                      THEN /\ pc' = "followup"
                           /\ fu' = 1
                           /\ lines' = buffered
                           /\ backend' = o.be
                           /\ UNCHANGED <<sideVars, genVars, flagVars, targetRealms, ri, ii, mutated, skipped,
                                          out, log, logOpen, err, exitCode, audit, run, first,
                                          backend0, realmList>>
                      ELSE Record(buffered) /\ backend' = o.be
                 [] todo = "skip-conflict" -> Skip("conflict", buffered) /\ backend' = o.be
                 [] todo = "skip-missing" -> Skip("missing", buffered) /\ backend' = o.be
                 [] todo = "abort-not-found" -> Fail("not-found", o.be)
                 [] OTHER -> Fail(cmd.verb, o.be)

\* one follow-up call of a created / updated item; the rename of clients
\* update is refused when the new client-id is taken
FollowUp ==
  /\ pc = "followup"
  /\ LET step == FollowUps(ii)[fu]
         k == <<realm, key>>
         nk == <<realm, pick(vals, ii, "").v>>
         taken == step = "UpdateClient:rename" /\ nk # k /\ nk \in backend
     IN
     IF step = "check-client-id"
     THEN Fail("missing-client-id", backend) /\ UNCHANGED <<calls, raced>>
     ELSE \E ans \in Answers({IF taken THEN "conflict" ELSE "ok", "error"}) :
       /\ calls' = Append(calls, [Call(step, ri, ii, ans) EXCEPT
                                   !.pw = IF step = "SetPassword" THEN PasswordOf(ii)
                                          ELSE <<>>])
       /\ raced' = raced
       /\ IF ans # "ok"
          THEN Fail("follow-up", backend)
          ELSE /\ backend' = IF step = "UpdateClient:rename"
                             THEN (backend \ {k}) \cup {nk} ELSE backend
               /\ IF fu < Len(FollowUps(ii))
                  THEN /\ fu' = fu + 1
                       /\ UNCHANGED <<sideVars, genVars, flagVars, targetRealms, ri, ii, mutated, skipped,
                                      ioVars, pc, run, first, backend0, realmList>>
                  ELSE Record(lines)

\* "Done. Created: m, Skipped: s." (in a summary line the fields r and i
\* hold the two counts)
Summary(m, s) == [kind |-> "summary", r |-> m, i |-> s]

\* the end of RunE after the loop (summary line, printBox) and, RunE having
\* returned nil, PersistentPostRunE: END line, audit entry, log file closed
Finish ==
  /\ pc = "finish"
  /\ out' = (IF Buffers(cmd) THEN out \o lines ELSE out) \o <<Summary(mutated, skipped)>>
  /\ log' = Append(log, "END:ok")
  /\ audit' = Append(audit, AuditEntry("ok"))
  /\ logOpen' = FALSE
  /\ exitCode' = 0
  /\ pc' = "exit"
  /\ UNCHANGED <<sideVars, genVars, flagVars, loopVars, lines, err, histVars, backend, realmList>>

\* the operator runs the identical create command line once more, after a
\* run that completed normally or after a first run that stopped at a
\* follow-up call with no other writer at work (status "follow-up", r and
\* i the pair it stopped at); the retry of a stopped run is followed no
\* further
Rerun ==
  /\ pc = "exit"
  /\ cmd.verb = "create"
  /\ \/ exitCode = 0 /\ first.status # "follow-up"
     \/ err = "follow-up" /\ run = 1 /\ ~raced
  /\ run < MaxRuns
  /\ first' = [status |-> IF exitCode = 0 THEN "ok" ELSE err,
               mutated |-> mutated, raced |-> raced,
               r |-> IF exitCode = 0 THEN 0 ELSE ri,
               i |-> IF exitCode = 0 THEN 0 ELSE ii]
  /\ backend0' = backend
  /\ run' = run + 1
  /\ pc' = "prerun"
  /\ targetRealms' = <<>>
  /\ ri' = 1 /\ ii' = 1 /\ fu' = 1
  /\ mutated' = 0 /\ skipped' = 0
  /\ out' = <<>> /\ lines' = <<>> /\ log' = <<>>
  /\ logOpen' = FALSE
  /\ err' = ""
  /\ exitCode' = -1
  /\ calls' = <<>>
  /\ raced' = FALSE
  /\ UNCHANGED <<sideVars, genVars, flagVars, audit, backend, realmList>>

Next ==
  \/ PersistentPreRunE
  \/ Validate
  \/ Login
  \/ ResolveRealms
  \/ LookupClient
  \/ Probe
  \/ Mutate
  \/ FollowUp
  \/ Finish
  \/ Rerun

Spec == Init /\ [][Next]_vars

\* ------------------------------------------ the password functions alone
\* generateStrongPassword called with any length and any outcome of its
\* draws, its result handed to validatePasswordStrength
DrawValues == {0, 30, 55, 88}

GenInit ==
  /\ length \in 0..MaxGen
  /\ draws \in [1..length -> DrawValues]
  /\ generated = <<>>
  /\ accepted = ""
  /\ gpc = "call"
  /\ cmd = [res |-> "users", verb |-> "create"]
  /\ ids = <<>> /\ attr = "none" /\ vals = <<>>
  /\ ignoreMissing = FALSE
  /\ extras = "none"
  /\ allRealms = FALSE /\ cmdRealms = <<>> /\ cfgRealm = ""
  /\ pc = "exit"
  /\ targetRealms = <<>>
  /\ ri = 1 /\ ii = 1 /\ fu = 1
  /\ mutated = 0 /\ skipped = 0
  /\ out = <<>> /\ lines = <<>> /\ log = <<>>
  /\ logOpen = FALSE
  /\ err = ""
  /\ exitCode = -1
  /\ audit = <<>>
  /\ realmList = <<>>
  /\ backend = {}
  /\ backend0 = {}
  /\ calls = <<>>
  /\ raced = FALSE
  /\ run = 1
  /\ first = NoFirst
  /\ SideIdle

\* the call: the length check, then the draws; rand.Int may fail at any draw
GenerateStrongPassword ==
  /\ gpc = "call"
  /\ \E randOk \in BOOLEAN :
       IF length < 4 \/ ~randOk
       THEN /\ gpc' = IF length < 4 THEN "refused" ELSE "rand-error"
            /\ generated' = <<>>
       ELSE /\ gpc' = "returned"
            /\ generated' = generateStrongPassword(length, draws)
  /\ UNCHANGED <<length, draws, accepted>>
  /\ UNCHANGED <<sideVars, flagVars, loopVars, ioVars, histVars, pc, backend, realmList>>

\* the password returned is given to the validator
ValidateGenerated ==
  /\ gpc = "returned"
  /\ accepted' = validatePasswordStrength(generated)
  /\ gpc' = "validated"
  /\ UNCHANGED <<length, draws, generated>>
  /\ UNCHANGED <<sideVars, flagVars, loopVars, ioVars, histVars, pc, backend, realmList>>

GenNext == GenerateStrongPassword \/ ValidateGenerated

GenSpec == GenInit /\ [][GenNext]_vars

\* validatePasswordStrength called with any string over PwAlphabet: one
\* character of each class and one from outside ASCII
PwAlphabet == {"a", "A", "1", "!", "e-acute"}

RECURSIVE Strings(_)
Strings(n) ==
  IF n = 0 THEN {<<>>}
  ELSE Strings(n - 1) \cup {Append(w, ch) : w \in [1..(n - 1) -> PwAlphabet], ch \in PwAlphabet}

ValInit ==
  /\ generated \in Strings(MaxPw)
  /\ length = 0
  /\ draws = <<>>
  /\ accepted = ""
  /\ gpc = "given"
  /\ cmd = [res |-> "users", verb |-> "create"]
  /\ ids = <<>> /\ attr = "none" /\ vals = <<>>
  /\ ignoreMissing = FALSE
  /\ extras = "none"
  /\ allRealms = FALSE /\ cmdRealms = <<>> /\ cfgRealm = ""
  /\ pc = "exit"
  /\ targetRealms = <<>>
  /\ ri = 1 /\ ii = 1 /\ fu = 1
  /\ mutated = 0 /\ skipped = 0
  /\ out = <<>> /\ lines = <<>> /\ log = <<>>
  /\ logOpen = FALSE
  /\ err = ""
  /\ exitCode = -1
  /\ audit = <<>>
  /\ realmList = <<>>
  /\ backend = {}
  /\ backend0 = {}
  /\ calls = <<>>
  /\ raced = FALSE
  /\ run = 1
  /\ first = NoFirst
  /\ SideIdle

ValidatePasswordStrength ==
  /\ gpc = "given"
  /\ accepted' = validatePasswordStrength(generated)
  /\ gpc' = "answered"
  /\ UNCHANGED <<length, draws, generated>>
  /\ UNCHANGED <<sideVars, flagVars, loopVars, ioVars, histVars, pc, backend, realmList>>

ValNext == ValidatePasswordStrength

ValSpec == ValInit /\ [][ValNext]_vars

\* ---------------------------------------------------------------------
\* The audit file: invocations of kc that end at the same time each call
\* audit.Append once, on the same file csvPath of the working directory
\* ---------------------------------------------------------------------

\* no command, no generator and no validator is running
CommandIdle ==
  /\ cmd = [res |-> "users", verb |-> "create"]
  /\ ids = <<>> /\ attr = "none" /\ vals = <<>>
  /\ ignoreMissing = FALSE
  /\ extras = "none"
  /\ allRealms = FALSE /\ cmdRealms = <<>> /\ cfgRealm = ""
  /\ pc = "exit"
  /\ targetRealms = <<>>
  /\ ri = 1 /\ ii = 1 /\ fu = 1
  /\ mutated = 0 /\ skipped = 0
  /\ out = <<>> /\ lines = <<>> /\ log = <<>>
  /\ logOpen = FALSE
  /\ err = ""
  /\ exitCode = -1
  /\ audit = <<>>
  /\ realmList = <<>>
  /\ backend = {}
  /\ backend0 = {}
  /\ calls = <<>>
  /\ raced = FALSE
  /\ run = 1
  /\ first = NoFirst
  /\ length = 0
  /\ draws = <<>>
  /\ generated = <<>>
  /\ accepted = ""
  /\ gpc = "off"

\* the invocations that run at the same time; mu is a variable of one
\* process, so it orders the goroutines of one invocation only, and an
\* invocation calls Append from one goroutine
Procs == 1..MaxProcs

header == [kind |-> "header", of |-> 0]
record(p) == [kind |-> "record", of |-> p]

\* what one Flush hands to the file: the header when os.Stat found no
\* file, then the record; the csv.Writer buffers both, so they reach the
\* file in one write, which O_APPEND places at the end
Flushed(p) ==
  (IF fileExists[p] THEN <<>> ELSE <<header>>) \o <<record(p)>>

AuditInit ==
  /\ csvExists = FALSE
  /\ csvRows = <<>>
  /\ fileExists = [p \in Procs |-> FALSE]
  /\ apc = [p \in Procs |-> "stat"]
  /\ CommandIdle
  /\ ConfigIdle
  /\ BoxIdle

\* os.Stat(csvPath): absent, present, or another error, which ends the call
AppendStat(p) ==
  /\ apc[p] = "stat"
  /\ \E statOk \in BOOLEAN :
       IF statOk
       THEN /\ fileExists' = [fileExists EXCEPT ![p] = csvExists]
            /\ apc' = [apc EXCEPT ![p] = "open"]
       ELSE /\ apc' = [apc EXCEPT ![p] = "failed"]
            /\ UNCHANGED fileExists
  /\ UNCHANGED <<csvExists, csvRows>>

\* the same with O_TRUNC in place of O_APPEND: the rows are dropped
AppendOpen_Truncating(p) ==
  /\ apc[p] = "open"
  /\ \E openOk \in BOOLEAN :
       IF openOk
       THEN /\ csvExists' = TRUE
            /\ csvRows' = <<>>
            /\ apc' = [apc EXCEPT ![p] = "write"]
       ELSE /\ apc' = [apc EXCEPT ![p] = "failed"]
            /\ UNCHANGED <<csvExists, csvRows>>
  /\ UNCHANGED fileExists

\* os.OpenFile(csvPath, O_CREATE|O_WRONLY|O_APPEND): creates a missing file
AppendOpen(p) ==
  /\ apc[p] = "open"
  /\ \E openOk \in BOOLEAN :
       IF openOk
       THEN /\ csvExists' = TRUE
            /\ apc' = [apc EXCEPT ![p] = "write"]
       ELSE /\ apc' = [apc EXCEPT ![p] = "failed"]
            /\ UNCHANGED csvExists
  /\ UNCHANGED <<csvRows, fileExists>>

\* w.Write(header), w.Write(record), w.Flush(), then the deferred Close
AppendFlush(p) ==
  /\ apc[p] = "write"
  /\ \E writeOk \in BOOLEAN :
       IF writeOk
       THEN /\ csvRows' = csvRows \o Flushed(p)
            /\ apc' = [apc EXCEPT ![p] = "done"]
       ELSE /\ apc' = [apc EXCEPT ![p] = "failed"]
            /\ UNCHANGED csvRows
  /\ UNCHANGED <<csvExists, fileExists>>

AuditAppend(p) ==
  /\ \/ AppendStat(p)
     \/ AppendOpen(p)
     \/ AppendFlush(p)
  /\ UNCHANGED <<cfgVars, boxVars, genVars, flagVars, loopVars, ioVars, histVars, pc, backend, realmList>>

AuditNext == \E p \in Procs : AuditAppend(p)

AuditSpec == AuditInit /\ [][AuditNext]_vars

\* ---------------------------------------------------------------------
\* One invocation from its configuration file to its audit entry:
\* config.Load in PersistentPreRunE, the command body, appendAudit
\* ---------------------------------------------------------------------

\* the configuration files: each key is absent (or empty) or has a value;
\* a file may also be missing or not be JSON
ConfigFiles ==
  [state : {"ok"},
   server_url : {"", "https://kc"}, auth_realm : {"", "corp"},
   realm : {"", "r1"}, client_id : {"", "admin-cli"},
   client_secret : {"", "s3cret"}, username : {"", "bob"},
   password : {"", "pw"},
   grant_type : {"", "password", "client_credentials"}]
    \cup {NoFile, [NoFile EXCEPT !.state = "malformed"]}

\* the commands that have a RunE and so an audit entry: the root command,
\* and the leaves of the command tree
RootCommand == [res |-> "", verb |-> ""]
Invocables ==
  {RootCommand}
    \cup [res : {"users", "clients", "client-scopes", "roles"},
         verb : {"create", "update", "delete"}]
    \cup [res : {"clients", "client-scopes", "realms"}, verb : {"list"}]
    \cup {[res |-> "client-roles", verb |-> "create"]}
    \cup [res : {"clients scopes"}, verb : {"assign", "remove"}]

\* cobra's CommandPath: the names from the root down, joined by spaces
CommandPath(c) ==
  IF c = RootCommand THEN "kc" ELSE "kc " \o c.res \o " " \o c.verb

\* v.Unmarshal(&Global): each key of the file into its field
Unmarshal(f) ==
  [ServerURL |-> f.server_url, AuthRealm |-> f.auth_realm, Realm |-> f.realm,
   ClientID |-> f.client_id, ClientSecret |-> f.client_secret,
   Username |-> f.username, Password |-> f.password,
   GrantType |-> f.grant_type]

\* the two defaults of Load
Defaults(g) ==
  [g EXCEPT !.AuthRealm = IF @ = "" THEN "master" ELSE @,
            !.GrantType = IF @ = "" THEN "client_credentials" ELSE @]

\* the same without the defaults
Load_AsRead(f) ==
  IF f.state = "missing" THEN [err |-> "config.json not found", Global |-> ZeroConfig]
  ELSE IF f.state = "malformed" THEN [err |-> "read", Global |-> ZeroConfig]
  ELSE IF Unmarshal(f).ServerURL = ""
       THEN [err |-> "server_url is required", Global |-> Unmarshal(f)]
       ELSE [err |-> "", Global |-> Unmarshal(f)]

\* config.Load: its error and what it leaves in config.Global
Load(f) ==
  IF f.state = "missing" THEN [err |-> "config.json not found", Global |-> ZeroConfig]
  ELSE IF f.state = "malformed" THEN [err |-> "read", Global |-> ZeroConfig]
  ELSE IF Unmarshal(f).ServerURL = ""
       THEN [err |-> "server_url is required", Global |-> Unmarshal(f)]
       ELSE [err |-> "", Global |-> Defaults(Unmarshal(f))]

resolveActor ==
  IF Global.GrantType = "password" /\ Global.Username # ""
  THEN <<"user", Global.Username>>
  ELSE IF Global.ClientID # "" THEN <<"client", Global.ClientID>>
  ELSE <<"unknown", "">>

\* the same with every unlisted path under one tag
resolveChangeKind_OneTag(path) ==
  CASE path = "kc users create" -> "users_create"
    [] path = "kc users update" -> "users_update"
    [] path = "kc users delete" -> "users_delete"
    [] path = "kc clients create" -> "clients_create"
    [] path = "kc clients update" -> "clients_update"
    [] path = "kc clients delete" -> "clients_delete"
    [] path = "kc clients list" -> "clients_list"
    [] path = "kc client-scopes create" -> "client_scopes_create"
    [] path = "kc client-scopes update" -> "client_scopes_update"
    [] path = "kc client-scopes delete" -> "client_scopes_delete"
    [] path = "kc client-scopes list" -> "client_scopes_list"
    [] path = "kc roles create" -> "roles_create"
    [] path = "kc roles update" -> "roles_update"
    [] path = "kc roles delete" -> "roles_delete"
    [] path = "kc realms list" -> "realms_list"
    [] OTHER -> "other"

resolveChangeKind(path) ==
  CASE path = "kc users create" -> "users_create"
    [] path = "kc users update" -> "users_update"
    [] path = "kc users delete" -> "users_delete"
    [] path = "kc clients create" -> "clients_create"
    [] path = "kc clients update" -> "clients_update"
    [] path = "kc clients delete" -> "clients_delete"
    [] path = "kc clients list" -> "clients_list"
    [] path = "kc client-scopes create" -> "client_scopes_create"
    [] path = "kc client-scopes update" -> "client_scopes_update"
    [] path = "kc client-scopes delete" -> "client_scopes_delete"
    [] path = "kc client-scopes list" -> "client_scopes_list"
    [] path = "kc roles create" -> "roles_create"
    [] path = "kc roles update" -> "roles_update"
    [] path = "kc roles delete" -> "roles_delete"
    [] path = "kc realms list" -> "realms_list"
    [] OTHER -> path

ConfigInit ==
  /\ configFile \in ConfigFiles
  /\ invoked \in Invocables
  /\ Global = ZeroConfig
  /\ entry = NoEntry
  /\ requests = <<>>
  /\ ipc = "prerun"
  /\ CsvIdle
  /\ BoxIdle
  /\ CommandIdle

\* PersistentPreRunE: config.Load, then the log file; an error of either
\* ends the invocation before RunE and before any post-run hook
PreRunLoad ==
  /\ ipc = "prerun"
  /\ Global' = Load(configFile).Global
  /\ \E logOk \in BOOLEAN :
       ipc' = IF Load(configFile).err # "" \/ ~logOk THEN "refused" ELSE "run"
  /\ UNCHANGED <<configFile, invoked, entry, requests>>

\* the command body: the root command prints its help; every other command
\* logs in and, once logged in, sends its calls
RunBody ==
  /\ ipc = "run"
  /\ \E loginOk \in BOOLEAN :
       requests' = IF invoked = RootCommand THEN <<>>
                   ELSE IF loginOk THEN <<"login", "call">>
                   ELSE <<"login">>
  /\ ipc' = "audit"
  /\ UNCHANGED <<configFile, Global, invoked, entry>>

\* appendAudit, from PersistentPostRunE or from withErrorEnd
appendAudit ==
  /\ ipc = "audit"
  /\ entry' = [ActorType |-> resolveActor[1],
               ActorID |-> resolveActor[2],
               AuthRealm |-> Global.AuthRealm,
               ChangeKind |-> resolveChangeKind(CommandPath(invoked))]
  /\ ipc' = "done"
  /\ UNCHANGED <<configFile, Global, invoked, requests>>

ConfigNext ==
  /\ \/ PreRunLoad
     \/ RunBody
     \/ appendAudit
  /\ UNCHANGED <<csvVars, boxVars, genVars, flagVars, loopVars, ioVars, histVars, pc, backend, realmList>>

ConfigSpec == ConfigInit /\ [][ConfigNext]_vars

\* ---------------------------------------------------------------------
\* ui.RenderBox on its own. A string is the sequence of its characters;
\* Go's len counts its bytes (ByteLen), two for a character of NonAscii
\* ---------------------------------------------------------------------

\* the least content width
MinWidth == 80

\* strings.Repeat(ch, n)
Repeat(ch, n) == [k \in 1..n |-> ch]

\* lines shorter than, as long as and longer than the least width, one of
\* them 80 characters and 81 bytes long
LineSamples ==
  {<<>>, Repeat("x", 5), Repeat("x", MinWidth),
   Repeat("x", MinWidth - 1) \o <<"e-acute">>, Repeat("y", MinWidth + 3)}

RECURSIVE LineLists(_)
LineLists(n) ==
  IF n = 0 THEN {<<>>}
  ELSE LineLists(n - 1)
         \cup {Append(ls, l) : ls \in {x \in LineLists(n - 1) : Len(x) = n - 1},
                               l \in LineSamples}

\* the header contexts: ticket and realm label empty or set, the label
\* short or wider than any line, the title empty or the one printBox gives
BoxOptions ==
  [JiraTicket : {<<>>, <<"J", "-", "1">>},
   Realm : {<<>>, <<"r", "1">>, Repeat("r", MinWidth + 5)},
   Title : {<<>>, <<"M", "y", " ", "C", "L", "I">>}]

\* faulty variant: the realm part is put before the ticket part
buildHeaderText_RealmFirst(o) ==
  LET jira == <<"J", "i", "r", "a", " ", "T", "i", "c", "k", "e", "t", ":", " ">> \o o.JiraTicket
      current == <<"C", "u", "r", "r", "e", "n", "t", " ", "r", "e", "a", "l", "m", ":", " ">> \o o.Realm
  IN IF o.JiraTicket # <<>> /\ o.Realm # <<>>
     THEN current \o <<" ", ":", ":", ":", " ">> \o jira
     ELSE IF o.JiraTicket # <<>> THEN jira
     ELSE IF o.Realm # <<>> THEN current
     ELSE IF o.Title # <<>> THEN o.Title
     ELSE <<"K", "e", "y", "c", "l", "o", "a", "k", " ", "C", "L", "I">>

buildHeaderText(o) ==
  LET jira == <<"J", "i", "r", "a", " ", "T", "i", "c", "k", "e", "t", ":", " ">> \o o.JiraTicket
      current == <<"C", "u", "r", "r", "e", "n", "t", " ", "r", "e", "a", "l", "m", ":", " ">> \o o.Realm
  IN IF o.JiraTicket # <<>> /\ o.Realm # <<>>
     THEN jira \o <<" ", ":", ":", ":", " ">> \o current
     ELSE IF o.JiraTicket # <<>> THEN jira
     ELSE IF o.Realm # <<>> THEN current
     ELSE IF o.Title # <<>> THEN o.Title
     ELSE <<"K", "e", "y", "c", "l", "o", "a", "k", " ", "C", "L", "I">>

padRight(str, width) ==
  IF ByteLen(str) >= width THEN str
  ELSE str \o Repeat(" ", width - ByteLen(str))

\* the same with the least width for every box
contentWidth_Least(ls, headerText) == MinWidth

\* the width RenderBox computes, lines 13 to 21
contentWidth(ls, headerText) ==
  LET lens == {ByteLen(headerText)} \cup {ByteLen(ls[k]) : k \in 1..Len(ls)}
      widest == CHOOSE w \in lens : \A v \in lens : v <= w
  IN IF widest < MinWidth THEN MinWidth ELSE widest

RECURSIVE LineRows(_, _)
LineRows(ls, w) ==
  IF ls = <<>> THEN <<>>
  ELSE <<"|", " ">> \o padRight(Head(ls), w) \o <<" ", "|", "\n">>
         \o LineRows(Tail(ls), w)

RenderBox(ls, o) ==
  LET headerText == buildHeaderText(o)
      w == contentWidth(ls, headerText)
      topBottom == <<"|">> \o Repeat(":", w + 2) \o <<"|">>
  IN topBottom \o <<"\n">>
       \o <<"|", " ">> \o padRight(headerText, w) \o <<" ", "|", "\n">>
       \o LineRows(ls, w)
       \o topBottom

BoxInit ==
  /\ boxLines \in LineLists(MaxLines)
  /\ opts \in BoxOptions
  /\ box = <<>>
  /\ bpc = "call"
  /\ CsvIdle
  /\ ConfigIdle
  /\ CommandIdle

Render ==
  /\ bpc = "call"
  /\ box' = RenderBox(boxLines, opts)
  /\ bpc' = "rendered"
  /\ UNCHANGED <<boxLines, opts>>
  /\ UNCHANGED <<csvVars, cfgVars, genVars, flagVars, loopVars, ioVars, histVars, pc, backend, realmList>>

BoxNext == Render

BoxSpec == BoxInit /\ [][BoxNext]_vars



\* ========================================================== the properties
\* ------------------------------------------- reading the call history
\* the position the loop stands at, and of the pair a call was made for
Here == PairIndex(ri, ii)
PairOf(c) == PairIndex(c.r, c.i)

\* calls made for one item of the batch
ItemCalls == {k \in 1..Len(calls) : calls[k].i > 0}

\* the "... Skipped." line of pair (r, i) was written or buffered
SkippedLine(r, i) ==
  LET l == [kind |-> "skipped", r |-> r, i |-> i]
  IN \/ \E k \in 1..Len(out) : out[k] = l
     \/ \E k \in 1..Len(lines) : lines[k] = l

\* number of create calls issued for the pair of call c
CreateCalls(c) ==
  Cardinality({k \in ItemCalls : /\ calls[k].op = "create"
                                 /\ calls[k].r = c.r
                                 /\ calls[k].i = c.i})

\* the existence check of an update / delete answered that the item is
\* absent: the probe, or the delete call of the command that does not probe
MissingAt(c) ==
  /\ c.ans = "notfound"
  /\ \/ c.op = "Probe"
     \/ c.op = "delete" /\ ~HasProbe(cmd)

\* the errors raised by the checks made before the first remote call
ValidationErrors == {"missing-client-id", "missing-identifier", "nothing-to-update", "cardinality"}

\* failures that are not the answer of a remote call
LocalFailures == ValidationErrors \cup {"config-error", "log-file-error", "no-realm", "password", "panic"}

\* ---------------------------------------------------------------- C1
\* C1: in every create and update command an optional attribute given L
\* values for N identifiers is accepted exactly when L is 0, 1 or N; with
\* any other L the command fails with a validation error before any remote
\* call is made.
C1_CardinalityRule ==
  (/\ cmd.verb \in {"create", "update"}
   /\ log # <<>>
   /\ pc \notin {"prerun", "validate"})
    => IF CardinalityOk(Len(vals), N)
       THEN err # "cardinality"
       ELSE err \in ValidationErrors /\ calls = <<>>

\* ---------------------------------------------------------------- C2
\* C2: in a create command, a pair whose probe reported the key present gets
\* no create call, is counted as skipped and the batch goes on; a pair whose
\* probe reported it absent gets exactly one create call.
C2_ProbeThenCreate ==
  cmd.verb = "create" =>
    \A k \in ItemCalls :
      LET c == calls[k]
      IN /\ (c.op = "Probe" /\ c.ans = "found") =>
              /\ CreateCalls(c) = 0
              /\ SkippedLine(c.r, c.i)
              /\ skipped >= 1
              /\ Here > PairOf(c)
         /\ (c.op = "Probe" /\ c.ans = "notfound") =>
              \/ pc = "mutate" /\ Here = PairOf(c)
              \/ CreateCalls(c) = 1

\* ---------------------------------------------------------------- C3
\* the remote calls that change the backend
MutatingOps ==
  {"create", "update", "delete", "AddRealmRoleToUser", "AddClientRoleToUser", "SetPassword",
   "UpdateClient:redirect-uris", "UpdateClient:web-origins", "UpdateClient:rename"}

\* C3: the identical create command run a second time, the backend not
\* having been changed by anyone in between, reports created = 0 and
\* skipped = N, issues no mutating call and leaves the backend unchanged.
C3_RerunIsNoop ==
  (/\ run > 1
   /\ first.status = "ok"
   /\ ~first.raced
   /\ ~raced
   /\ pc = "exit"
   /\ exitCode = 0)
    => /\ mutated = 0
       /\ skipped = Len(targetRealms) * N
       /\ \A k \in 1..Len(calls) : calls[k].op \notin MutatingOps
       /\ backend = backend0

\* ---------------------------------------------------------------- C4
\* C4: in every create command a conflict answer of the create call, issued
\* after the probe reported the key absent, is recorded as skipped and the
\* batch goes on with the next pair; it never aborts the batch.
C4_ConflictIsSkipped ==
  cmd.verb = "create" =>
    \A k \in ItemCalls :
      LET c == calls[k]
      IN (c.op = "create" /\ c.ans = "conflict") =>
           /\ SkippedLine(c.r, c.i)
           /\ Here > PairOf(c)
           /\ err # "create"

\* ---------------------------------------------------------------- C5
\* C5: in every update and delete command run with ignore-missing, an item
\* found absent is recorded as skipped, no mutation of it takes effect, the
\* batch goes on with the next pair, and when nothing else fails the command
\* ends with status ok and exit code 0.
C5_IgnoreMissingSkips ==
  (cmd.verb \in {"update", "delete"} /\ ignoreMissing) =>
    /\ \A k \in ItemCalls :
         LET c == calls[k]
         IN MissingAt(c) =>
              /\ SkippedLine(c.r, c.i)
              /\ skipped >= 1
              /\ Here > PairOf(c)
              /\ \A j \in ItemCalls :
                   (calls[j].r = c.r /\ calls[j].i = c.i) =>
                     /\ calls[j].ans # "ok"
                     /\ j = k
    /\ err # "not-found"
    /\ (/\ pc = "exit"
        /\ err \notin LocalFailures
        /\ \A k \in 1..Len(calls) : calls[k].ans \in {"ok", "found"} \/ MissingAt(calls[k]))
         => /\ exitCode = 0
            /\ AuditOfRun = <<AuditEntry("ok")>>

\* a batch with ignore-missing that skipped an absent item, mutated another
\* one and ended normally
C5_Witness ==
  /\ cmd.verb \in {"update", "delete"}
  /\ ignoreMissing
  /\ pc = "exit"
  /\ exitCode = 0
  /\ mutated >= 1
  /\ \E k \in ItemCalls : MissingAt(calls[k]) /\ SkippedLine(calls[k].r, calls[k].i)

\* ---------------------------------------------------------------- C6
\* C6: in every update and delete command run without ignore-missing, the
\* first item found absent aborts the batch with a not-found error: no later
\* pair is probed or mutated, the exit code is not zero and the audit entry
\* has status error.
C6_MissingAborts ==
  (cmd.verb \in {"update", "delete"} /\ ~ignoreMissing) =>
    \A k \in ItemCalls :
      LET c == calls[k]
      IN MissingAt(c) =>
           /\ k = Len(calls)
           /\ pc = "exit"
           /\ err = "not-found"
           /\ exitCode # 0
           /\ AuditOfRun = <<AuditEntry("error")>>
           /\ ~SkippedLine(c.r, c.i)
           /\ \A j \in ItemCalls : PairOf(calls[j]) <= PairOf(c)

\* a batch without ignore-missing that mutated an item and then aborted on
\* an absent one, pairs after it left
C6_Witness ==
  /\ cmd.verb \in {"update", "delete"}
  /\ ~ignoreMissing
  /\ pc = "exit"
  /\ err = "not-found"
  /\ mutated >= 1
  /\ calls # <<>>
  /\ MissingAt(calls[Len(calls)])
  /\ Here < Len(targetRealms) * N

\* ---------------------------------------------------------------- C7
\* answers that are no failure, or one of the two sanctioned skips
Sanctioned(c) ==
  \/ c.ans \in {"ok", "found"}
  \/ c.ans = "conflict" /\ c.op = "create"
  \/ c.ans = "notfound" /\ (cmd.verb = "create" \/ ignoreMissing)

\* C7: a remote failure other than the two sanctioned skips (conflict on
\* create, not-found with ignore-missing) makes the command return the error
\* at once: no remote call follows it and no summary line is printed.
C7_RemoteFailureIsFatal ==
  \A k \in 1..Len(calls) :
    ~Sanctioned(calls[k]) =>
      /\ k = Len(calls)
      /\ pc = "exit"
      /\ exitCode # 0
      /\ err # ""
      /\ \A j \in 1..Len(out) : out[j].kind # "summary"

\* ---------------------------------------------------------------- C8
\* C8: in every command a probe that fails with anything but not-found is
\* fatal: it is never read as "absent" so that a create call follows, nor as
\* "missing" so that the item is skipped under ignore-missing.
C8_ProbeFailureIsFatal ==
  \A k \in ItemCalls :
    LET c == calls[k]
    IN (c.op = "Probe" /\ c.ans = "error") =>
         /\ k = Len(calls)
         /\ pc = "exit"
         /\ err = "probe"
         /\ CreateCalls(c) = 0
         /\ ~SkippedLine(c.r, c.i)

\* ---------------------------------------------------------------- C9
\* the backend a call leaves, by the answer the call got
Effect(be, c) ==
  LET k == <<targetRealms[c.r], ids[c.i]>>
  IN IF c.ans # "ok" \/ c.i = 0 THEN be
     ELSE CASE c.op = "create" -> be \cup {k}
            [] c.op = "delete" -> be \ {k}
            [] c.op = "update" -> (be \ {k}) \cup {<<targetRealms[c.r], NewKey(c.i)>>}
            [] c.op = "UpdateClient:rename" ->
                 (be \ {k}) \cup {<<targetRealms[c.r], pick(vals, c.i, "").v>>}
            [] OTHER -> be

\* the backend after the first n calls of the invocation
RECURSIVE Replay(_)
Replay(n) == IF n = 0 THEN backend0 ELSE Effect(Replay(n - 1), calls[n])

\* the key item i is to be found under after its update
RenamedTo(i) == IF attr \in RenameAttrs /\ Bound(i) # "" THEN Bound(i) ELSE ids[i]

\* the keys the calls made so far were about
Touched ==
  UNION {{<<targetRealms[calls[k].r], ids[calls[k].i]>>,
          <<targetRealms[calls[k].r], RenamedTo(calls[k].i)>>} : k \in ItemCalls}

\* C9: when a batch aborts at pair k, what the calls before the abort applied
\* stays applied (the backend is the initial one with the successful
\* mutations replayed, nothing is compensated), no call was made for a pair
\* after k, and every key listed only after k is as the invocation found it.
C9_AbortKeepsApplied ==
  (pc = "exit" /\ exitCode # 0 /\ ~raced) =>
    /\ backend = Replay(Len(calls))
    /\ \A j \in ItemCalls : PairOf(calls[j]) <= Here
    /\ \A r \in 1..Len(targetRealms) : \A i \in 1..N :
         (PairIndex(r, i) > Here /\ <<targetRealms[r], ids[i]>> \notin Touched) =>
           (<<targetRealms[r], ids[i]>> \in backend <=> <<targetRealms[r], ids[i]>> \in backend0)

\* a batch that aborted after it had changed the backend, pairs left
C9_Witness ==
  /\ pc = "exit"
  /\ exitCode = 1
  /\ ~raced
  /\ mutated >= 1
  /\ backend # backend0
  /\ Here < Len(targetRealms) * N

\* ---------------------------------------------------------------- C10
\* C10: every top-level invocation appends exactly one entry to the audit
\* store, whichever way it ends (config load, log-file setup, validation,
\* login, realm resolution, probe, mutation, or success).
C10_OneAuditEntry ==
  pc = "exit" => Len(AuditOfRun) = 1

\* ---------------------------------------------------------------- C11
\* the ERROR lines of the invocation's log
ErrorLines == SelectSeq(log, LAMBDA l : l = "ERROR")

\* C11: an invocation that aborts leaves exactly one ERROR log line, one
\* audit entry with status error and a non-zero exit code; one that succeeds
\* leaves exactly one audit entry with status ok and no ERROR line; none
\* leaves both an ok and an error ending.
C11_OneEnding ==
  pc = "exit" =>
    /\ err # "" =>
         /\ Len(ErrorLines) = 1
         /\ AuditOfRun = <<AuditEntry("error")>>
         /\ exitCode # 0
    /\ err = "" =>
         /\ Len(ErrorLines) = 0
         /\ AuditOfRun = <<AuditEntry("ok")>>
         /\ exitCode = 0
    /\ ~(\E j, k \in 1..Len(AuditOfRun) :
           AuditOfRun[j].status = "ok" /\ AuditOfRun[k].status = "error")

\* ---------------------------------------------------------------- C12
\* the positions of the outcome lines in the output
OutcomeLines == {k \in 1..Len(out) : out[k].kind \in {"skipped", "mutated"}}

\* C12: the pairs are processed in realm-major, item-minor order and their
\* outcome lines stand in the output in that order, mutated or skipped alike;
\* the summary line comes after all of them.
C12_OutputInInputOrder ==
  /\ \A j, k \in ItemCalls : j < k => PairOf(calls[j]) <= PairOf(calls[k])
  /\ \A j, k \in OutcomeLines :
       j < k => PairIndex(out[j].r, out[j].i) < PairIndex(out[k].r, out[k].i)
  /\ \A j \in 1..Len(out) :
       out[j].kind = "summary" => \A k \in OutcomeLines : k < j

\* ---------------------------------------------------------------- C13
\* number of lines of one kind written or buffered so far
CountLines(kind) ==
  Len(SelectSeq(out, LAMBDA l : l.kind = kind))
    + Len(SelectSeq(lines, LAMBDA l : l.kind = kind))

\* C13: the mutated counter plus the skipped counter is the number of pairs
\* the loop has gone through, each pair counted once (one outcome line per
\* count); on normal completion the two add up to |target realms| x
\* |identifiers| and the summary line reports the two counters.
C13_CountersAddUp ==
  /\ mutated + skipped = Here - 1
  /\ pc # "exit" =>
       /\ CountLines("mutated") = mutated
       /\ CountLines("skipped") = skipped
  /\ (pc = "exit" /\ exitCode = 0) =>
       /\ mutated + skipped = Len(targetRealms) * N
       /\ out # <<>>
       /\ out[Len(out)] = Summary(mutated, skipped)
       /\ Len(SelectSeq(out, LAMBDA l : l.kind = "mutated")) = mutated
       /\ Len(SelectSeq(out, LAMBDA l : l.kind = "skipped")) = skipped

\* a batch over two realms that mutated and skipped and printed its summary
C13_Witness ==
  /\ pc = "exit"
  /\ exitCode = 0
  /\ Len(targetRealms) = 2
  /\ mutated >= 2
  /\ skipped >= 1
  /\ out[Len(out)] = Summary(mutated, skipped)

\* ---------------------------------------------------------------- C14
LoopPcs == {"lookup", "probe", "mutate", "followup", "finish"}

\* no realm named anywhere
NoRealm == ~allRealms /\ cmdRealms = <<>> /\ defaultRealm = "" /\ cfgRealm = ""

\* the target list the flags, the configuration and the backend call for
ExpectedRealms ==
  IF allRealms THEN realmList
  ELSE IF cmdRealms # <<>> THEN cmdRealms
  ELSE IF defaultRealm # "" THEN <<defaultRealm>>
  ELSE IF cfgRealm # "" THEN <<cfgRealm>>
  ELSE <<>>

C15_TargetsNonEmpty ==
  /\ pc \in LoopPcs => targetRealms # <<>>
  /\ (pc = "exit" /\ targetRealms = <<>>) =>
       /\ exitCode # 0
       /\ err # ""
       /\ \A k \in 1..Len(calls) : calls[k].op \notin MutatingOps

\* ---------------------------------------------------------------- C16
\* C16: with or without ignore-missing, once the command's deadline has
\* elapsed in the realm x item loop no mutation is applied to any remaining
\* pair, the command ends with an error (status error, non-zero exit code)
\* and not with the normal summary, and the mutations applied before the
\* deadline are still in place.
C16_DeadlineEndsTheLoop ==
  Expired =>
    /\ \A j, k \in 1..Len(calls) :
         (calls[j].ans = "timeout" /\ j < k) =>
           ~(calls[k].op \in MutatingOps /\ calls[k].ans = "ok")
    /\ ~raced => backend = Replay(Len(calls))
    /\ pc # "finish"
    /\ pc = "exit" =>
         /\ exitCode # 0
         /\ AuditOfRun = <<AuditEntry("error")>>
         /\ \A k \in 1..Len(out) : out[k].kind # "summary"

\* ---------------------------------------------------------------- C17
\* C17: a failure caused by a missing required identifier flag (no --name,
\* --username or --client-id, or --client-role without --client-id) is
\* raised before any remote call is made.
C17_IdentifierCheckedFirst ==
  err \in {"missing-identifier", "missing-client-id"} => calls = <<>>

\* ---------------------------------------------------------------- C18
\* the k-th call is a create or update call of the loop
BindingCall(k) == calls[k].i > 0 /\ calls[k].op \in {"create", "update"}

PasswordCall(k) ==
  \/ calls[k].op = "SetPassword"
  \/ cmd.res = "users" /\ cmd.verb = "create" /\ calls[k].op = "create"

\* C19: no password, given or generated, is sent to the backend (as the
\* credential of a created user or by set-password) unless
\* validatePasswordStrength accepted it; a rejected password aborts the
\* command and no remote call carries it.
C19_OnlyValidatedPasswords ==
  /\ \A k \in 1..Len(calls) :
       IF PasswordCall(k)
       THEN calls[k].pw # <<>> /\ validatePasswordStrength(calls[k].pw) = ""
       ELSE calls[k].pw = <<>>
  /\ err = "password" =>
       /\ pc = "exit"
       /\ exitCode # 0
       /\ validatePasswordStrength(PasswordOf(ii)) # ""
       /\ \A k \in 1..Len(calls) : calls[k].pw # PasswordOf(ii)

\* users update set the strong password of the first user and stopped at
\* the weak password of the second
C19_Witness ==
  /\ cmd = [res |-> "users", verb |-> "update"]
  /\ err = "password"
  /\ \E k \in 1..Len(calls) :
       /\ calls[k].op = "SetPassword"
       /\ calls[k].ans = "ok"
       /\ calls[k].pw = StrongPw

\* ---------------------------------------------------------------- C20
\* C20: every password generateStrongPassword returns, for every length it
\* accepts and every outcome of its random draws, is accepted by
\* validatePasswordStrength.
C20_GeneratedIsStrong ==
  gpc = "validated" => accepted = ""

\* ---------------------------------------------------------------- C21
\* the four classes as the rule words them: ASCII lowercase letters, ASCII
\* uppercase letters, ASCII digits, and every other character
AsciiLower == {LowerPool[k] : k \in 1..Len(LowerPool)}
AsciiUpper == {UpperPool[k] : k \in 1..Len(UpperPool)}
AsciiDigit == {DigitPool[k] : k \in 1..Len(DigitPool)}

ClassOf(ch) ==
  IF ch \in AsciiLower THEN "lowercase"
  ELSE IF ch \in AsciiUpper THEN "uppercase"
  ELSE IF ch \in AsciiDigit THEN "digit"
  ELSE "special"

\* the classes of which the string has no character
MissingClasses(pw) ==
  {"lowercase", "uppercase", "digit", "special"} \ {ClassOf(pw[k]) : k \in 1..Len(pw)}

\* C21: validatePasswordStrength rejects a string exactly when it has fewer
\* than 6 characters or lacks a character of one of the classes lowercase,
\* uppercase, digit, special, every character that is not an ASCII letter
\* or digit counting as special; every other string is accepted.
C21_ValidatorRule ==
  gpc = "answered" =>
    (accepted # "" <=> (Len(generated) < 6 \/ MissingClasses(generated) # {}))

\* ---------------------------------------------------------------- C22
\* C22: every rejection by validatePasswordStrength tells the reason: the
\* length, or exactly the classes the string has no character of (for
\* "abcdef": uppercase, digit and special, and not lowercase).
C22_RejectionNamesReason ==
  (gpc = "answered" /\ accepted # "") =>
    IF Len(generated) < 6 THEN accepted = "too-short"
    ELSE MessageClasses(accepted) = MissingClasses(generated)

\* ---------------------------------------------------------------- C23
\* the invocation got as far as opening its log
Mirrored == err \notin {"config-error", "log-file-error"}

\* C23: in the mirrored log of an invocation the START line is written
\* before any output of the command, exactly one END line is written and
\* nothing of the invocation follows it, END carries status=error exactly
\* when the command failed, and then exactly one ERROR line precedes it.
C23_LogFraming ==
  /\ (out # <<>> \/ lines # <<>> \/ calls # <<>>) => (log # <<>> /\ log[1] = "START")
  /\ pc \notin {"prerun", "exit"} => log = <<"START">>
  /\ (pc = "exit" /\ Mirrored) =>
       log = (IF err = "" THEN <<"START", "END:ok">> ELSE <<"START", "ERROR", "END:error">>)

\* ---------------------------------------------------------------- C24
\* C24: on every exit path of an invocation that opened the log file
\* (normal return, validation error, fatal remote error) the log file is
\* closed before the process exits.
C24_LogFileClosed ==
  pc = "exit" => ~logOpen

\* the rows of the audit file that are the header, and those of p's record
HeaderRows == SelectSeq(csvRows, LAMBDA row : row.kind = "header")
RecordRows(p) == SelectSeq(csvRows, LAMBDA row : row = record(p))

\* C25: whatever the interleaving of the Append calls of invocations that
\* run at the same time on an audit file that was absent, the file holds
\* exactly one header row, that row is the first, and the record of every
\* call that returned without error is there as one whole row
C25_OneHeaderFirst ==
  /\ csvRows # <<>> => (csvRows[1] = header /\ Len(HeaderRows) = 1)
  /\ \A p \in DOMAIN apc : apc[p] = "done" => Len(RecordRows(p)) = 1

\* C26: the audit file only grows at its end: a successful Append adds its
\* one record after all the rows there are, with the header before it only
\* when os.Stat found no file at the call; a failed Append and every other
\* step leave the rows as they are
C26_AppendOnly ==
  [][/\ Len(csvRows') >= Len(csvRows)
     /\ SubSeq(csvRows', 1, Len(csvRows)) = csvRows
     /\ \A p \in DOMAIN apc :
          /\ (apc[p] # "done" /\ apc'[p] = "done")
               => \E pre \in {<<>>, <<header>>} :
                    /\ csvRows' = csvRows \o pre \o <<record(p)>>
                    /\ pre = <<header>> => ~fileExists[p]
          /\ (apc[p] # "failed" /\ apc'[p] = "failed") => csvRows' = csvRows
     /\ csvRows' # csvRows
          => \E p \in DOMAIN apc : apc[p] # "done" /\ apc'[p] = "done"]_vars

\* two calls have added their records after the rows of the first, and one
\* call has failed, with the rows left alone
C26_Witness ==
  /\ \E p \in DOMAIN apc : apc[p] = "failed"
  /\ Len(csvRows) >= 3
  /\ \E p, q \in DOMAIN apc :
       /\ p # q /\ apc[p] = "done" /\ apc[q] = "done"
       /\ fileExists[q] /\ ~fileExists[p]

\* ---------------------------------------------------------------- C27
\* C27: for every configuration the actor of the audit entry is
\* (user, username) when the grant type is the password grant, otherwise
\* (client, client id) when a client id is configured, otherwise
\* (unknown, "").
C27_ActorRule ==
  ipc = "done" =>
    <<entry.ActorType, entry.ActorID>> =
      (IF Global.GrantType = "password" THEN <<"user", Global.Username>>
       ELSE IF Global.ClientID # "" THEN <<"client", Global.ClientID>>
       ELSE <<"unknown", "">>)

\* ---------------------------------------------------------------- C28
\* the commands the mapping classifies
Classified ==
  [res : {"users", "clients", "client-scopes", "roles"},
   verb : {"create", "update", "delete"}]
    \cup [res : {"clients", "client-scopes", "realms"}, verb : {"list"}]

\* the tag of a classified command: resource and verb, joined by "_"
Snake(res) == IF res = "client-scopes" THEN "client_scopes" ELSE res
Tag(c) == Snake(c.res) \o "_" \o c.verb

\* C28: the change kind of the audit entry is the tag of the command path
\* for the commands the mapping classifies (roles_create for
\* "kc roles create"), and the command path itself for every other command.
C28_ChangeKind ==
  ipc = "done" =>
    /\ invoked \in Classified => entry.ChangeKind = Tag(invoked)
    /\ invoked \notin Classified => entry.ChangeKind = CommandPath(invoked)
    /\ CommandPath(invoked) = "kc roles create" => entry.ChangeKind = "roles_create"

\* an entry of a command outside the mapping
C28_Witness ==
  /\ ipc = "done"
  /\ invoked = [res |-> "client-roles", verb |-> "create"]
  /\ entry.ChangeKind = "kc client-roles create"

\* ---------------------------------------------------------------- C30
\* C30: with no server_url in the configuration the load fails and the
\* command body never runs: no login and no remote call; after a load
\* that succeeds an empty auth_realm is "master", an empty grant_type is
\* "client_credentials", and every other field is as the file has it.
C30_LoadRule ==
  /\ (ipc # "prerun" /\ configFile.server_url = "")
       => (ipc = "refused" /\ requests = <<>> /\ entry = NoEntry)
  /\ ipc \in {"run", "audit", "done"} =>
       /\ Global.ServerURL = configFile.server_url
       /\ Global.AuthRealm =
            (IF configFile.auth_realm = "" THEN "master" ELSE configFile.auth_realm)
       /\ Global.GrantType =
            (IF configFile.grant_type = "" THEN "client_credentials"
             ELSE configFile.grant_type)
       /\ Global.Realm = configFile.realm
       /\ Global.ClientID = configFile.client_id
       /\ Global.ClientSecret = configFile.client_secret
       /\ Global.Username = configFile.username
       /\ Global.Password = configFile.password

\* a command that ran with both defaults filled in and a realm left empty
C30_Witness ==
  /\ ipc = "done"
  /\ requests = <<"login", "call">>
  /\ configFile.auth_realm = "" /\ configFile.grant_type = ""
  /\ configFile.realm = ""
  /\ Global.AuthRealm = "master" /\ Global.GrantType = "client_credentials"

\* ---------------------------------------------------------------- C29
\* the rows of a block: the pieces between its line breaks
Breaks(str) == {k \in 1..Len(str) : str[k] = "\n"}
RowStart(str, n) ==
  IF n = 1 THEN 1
  ELSE 1 + CHOOSE k \in Breaks(str) :
             Cardinality({j \in Breaks(str) : j < k}) = n - 2
RowEnd(str, n) ==
  IF n = Cardinality(Breaks(str)) + 1 THEN Len(str)
  ELSE (CHOOSE k \in Breaks(str) :
          Cardinality({j \in Breaks(str) : j < k}) = n - 1) - 1
Rows(str) ==
  [n \in 1..(Cardinality(Breaks(str)) + 1) |->
     SubSeq(str, RowStart(str, n), RowEnd(str, n))]

\* the greatest of the least width and the lengths of header and lines
WidthOf(ls, headerText) ==
  LET lens == {MinWidth, ByteLen(headerText)}
                \cup {ByteLen(ls[k]) : k \in 1..Len(ls)}
  IN CHOOSE w \in lens : \A v \in lens : v <= w

\* C29: for every list of lines and every header context the content
\* width of RenderBox is the greatest of 80, the length of the header text
\* and the length of the longest line; the block has len(lines) + 3 rows,
\* each of length content width + 4; the rows of the lines are in input
\* order and every line is there in full. Lengths are Go's len.
C29_BoxShape ==
  bpc = "rendered" =>
    LET rows == Rows(box)
        w == WidthOf(boxLines, buildHeaderText(opts))
    IN /\ Len(rows) = Len(boxLines) + 3
       /\ \A n \in 1..Len(rows) : ByteLen(rows[n]) = w + 4
       /\ rows[1] = <<"|">> \o Repeat(":", w + 2) \o <<"|">>
       /\ rows[Len(rows)] = rows[1]
       /\ \A k \in 1..Len(boxLines) :
            SubSeq(rows[k + 2], 3, 2 + Len(boxLines[k])) = boxLines[k]

\* a box of two lines, the second longer than the least width and than the
\* header, the first shorter
C29_Witness ==
  /\ bpc = "rendered"
  /\ Len(boxLines) = 2
  /\ Len(boxLines[1]) < MinWidth
  /\ Len(boxLines[2]) > MinWidth
  /\ Len(buildHeaderText(opts)) < Len(boxLines[2])
  /\ Len(Rows(box)[3]) = Len(boxLines[2]) + 4

\* ---------------------------------------------------------------- C31
\* C31: in every update and delete command each mutating call for a pair
\* (realm, item) comes after a probe of that pair, in the same invocation,
\* that answered found; no update or delete call is made for a pair that
\* was not probed or whose probe answered not found.
C31_ProbedBeforeMutated ==
  cmd.verb \in {"update", "delete"} =>
    \A k \in 1..Len(calls) :
      calls[k].op \in MutatingOps =>
        \E j \in 1..(k - 1) :
          /\ calls[j].op = "Probe"
          /\ calls[j].r = calls[k].r /\ calls[j].i = calls[k].i
          /\ calls[j].ans = "found"

\* ---------------------------------------------------------------- C32
\* C32: for every command the step that resolves the target realms issues
\* exactly one remote call, the realm listing, when --all-realms is given,
\* and no remote call in every other case.
C32_ResolveCalls ==
  [][pc = "resolve" =>
       IF allRealms
       THEN /\ Len(calls') = Len(calls) + 1
            /\ SubSeq(calls', 1, Len(calls)) = calls
            /\ calls'[Len(calls')].op = "GetRealms"
       ELSE calls' = calls]_vars

\* ---------------------------------------------------------------- C33
\* C33: generateStrongPassword(n) fails for every n < 4; for every n >= 4
\* (its random source answering) it returns a string of exactly n
\* characters, the first four a lowercase letter, an uppercase letter, a
\* digit and a special character in this order, every later one a
\* character of the union of the four classes.
C33_GeneratedShape ==
  gpc \notin {"call", "off", "given", "answered"} =>
    /\ length < 4 <=> gpc = "refused"
    /\ gpc \in {"returned", "validated"} =>
         /\ Len(generated) = length
         /\ generated[1] \in AsciiLower
         /\ generated[2] \in AsciiUpper
         /\ generated[3] \in AsciiDigit
         /\ generated[4] \in {SpecialPool[k] : k \in 1..Len(SpecialPool)}
         /\ \A k \in 5..Len(generated) :
              generated[k] \in {AllPool[j] : j \in 1..Len(AllPool)}

\* a password of six characters whose two last are of different classes
C33_Witness ==
  /\ gpc = "returned"
  /\ length = 6
  /\ generated[5] \in AsciiUpper
  /\ generated[6] \in AsciiDigit

\* ---------------------------------------------------------------- C34
\* the parts of a header, and parts joined by a separator
TicketPart(o) ==
  IF o.JiraTicket = <<>> THEN <<>>
  ELSE <<<<"J", "i", "r", "a", " ", "T", "i", "c", "k", "e", "t", ":", " ">> \o o.JiraTicket>>
RealmPart(o) ==
  IF o.Realm = <<>> THEN <<>>
  ELSE <<<<"C", "u", "r", "r", "e", "n", "t", " ", "r", "e", "a", "l", "m", ":", " ">> \o o.Realm>>
RECURSIVE Joined(_, _)
Joined(parts, sep) ==
  IF parts = <<>> THEN <<>>
  ELSE IF Len(parts) = 1 THEN parts[1]
  ELSE parts[1] \o sep \o Joined(Tail(parts), sep)

\* C34: the header text of the box is "Jira Ticket: <ticket>" and
\* "Current realm: <realm>" for those of ticket and realm that are not
\* empty, in this order, joined by " ::: "; when both are empty it is the
\* title given, or "Keycloak CLI" when the title is empty too.
C34_HeaderText ==
  bpc = "rendered" =>
    LET parts == TicketPart(opts) \o RealmPart(opts)
        text == IF parts # <<>> THEN Joined(parts, <<" ", ":", ":", ":", " ">>)
                ELSE IF opts.Title # <<>> THEN opts.Title
                ELSE <<"K", "e", "y", "c", "l", "o", "a", "k", " ", "C", "L", "I">>
        row == Rows(box)[2]
    IN /\ SubSeq(row, 1, 2 + Len(text)) = <<"|", " ">> \o text
       /\ \A k \in (3 + Len(text))..(Len(row) - 2) : row[k] = " "
       /\ SubSeq(row, Len(row) - 1, Len(row)) = <<" ", "|">>

\* a header with ticket and realm both given
C34_Witness ==
  /\ bpc = "rendered"
  /\ opts.JiraTicket = <<"J", "-", "1">>
  /\ opts.Realm = <<"r", "1">>
  /\ Len(Rows(box)[2]) = MinWidth + 4

\* ---------------------------------------------------------------- C35
\* C35: no invocation ends in a panic of the attribute binding: in every
\* clients create or update each call pick(vals, i) of the loop has
\* len(vals) <= 1 or i within vals, so every invocation that began its
\* RunE reaches its END line and its audit entry.
C35_NoBindingPanic ==
  /\ err # "panic"
  /\ (pc = "exit" /\ Mirrored) =>
       (log[Len(log)] \in {"END:ok", "END:error"} /\ AuditOfRun # <<>>)

\* ---------------------------------------------------------------- C36
\* line l is in the output of the invocation (and so in its mirrored log)
Printed(kind, r, i) ==
  \E k \in 1..Len(out) : out[k] = [kind |-> kind, r |-> r, i |-> i]

\* C36: every mutation an invocation applied to the backend is reported
\* by an outcome line of its output and mirrored log, for users create
\* with the line of the password set for the user, also when the batch
\* aborted at a later pair.
C36_MutationsReported ==
  pc = "exit" =>
    \A k \in 1..Len(calls) :
      (calls[k].op \in {"create", "update", "delete"} /\ calls[k].ans = "ok") =>
        /\ Printed("mutated", calls[k].r, calls[k].i)
        /\ (cmd.res = "users" /\ cmd.verb = "create")
             => Printed("password", calls[k].r, calls[k].i)

\* ---------------------------------------------------------------- C37
\* C37: when a users create or clients create stopped after the create
\* call of an item had succeeded and before its follow-up step (role
\* assignment, redirect URIs, web origins) had, the identical command run
\* again and completing makes the follow-up calls of that item.
C37_RetryCompletesFollowUp ==
  (/\ run > 1
   /\ first.status = "follow-up"
   /\ ~first.raced /\ ~raced
   /\ pc = "exit"
   /\ exitCode = 0)
    => \E k \in 1..Len(calls) :
         /\ calls[k].op = FollowUps(first.i)[Len(FollowUps(first.i))]
         /\ calls[k].r = first.r /\ calls[k].i = first.i
         /\ calls[k].ans = "ok"

\* ---------------------------------------------------------------- C38
\* C38: the target-realm label of the audit entry of an invocation names
\* the realms the batch went over: the value of the command's --realm when
\* given, "all realms" when --all-realms was given, and the global or
\* configured realm only when that was the one used.
C38_AuditRealmLabel ==
  (pc = "exit" /\ targetRealms # <<>> /\ AuditOfRun # <<>>) =>
    LET label == AuditOfRun[1].realms
    IN IF allRealms THEN label = "all realms"
       ELSE IF Len(cmdRealms) = 1 THEN label = cmdRealms[1]
       ELSE IF Len(cmdRealms) > 1 THEN label \notin {"", cfgRealm}
       ELSE label = FallbackRealm

\* ---------------------------------------------------------------- C39
\* the lookups of the target client made so far
Lookups == {k \in 1..Len(calls) : calls[k].op = "getClientByClientID"}

\* C39: in client-roles create the target client is looked up once per
\* realm before any role of that realm is probed; when the lookup fails or
\* finds no client in a realm the batch aborts at that realm, no role is
\* probed or created there or in a later realm, and the roles created in
\* the realms before remain.
C39_ClientLookupPerRealm ==
  cmd.res = "client-roles" =>
    /\ \A j, k \in Lookups : calls[j].r = calls[k].r => j = k
    /\ \A k \in ItemCalls :
         \E j \in Lookups :
           j < k /\ calls[j].r = calls[k].r /\ calls[j].ans = "found"
    /\ \A j \in Lookups :
         calls[j].ans # "found" =>
           /\ j = Len(calls)
           /\ pc = "exit" /\ err = "client-not-found"
           /\ \A k \in ItemCalls : calls[k].r < calls[j].r
           /\ ~raced => backend = Replay(Len(calls))

\* the lookup found no client in the second realm after a role was created
\* in the first, and the role is still there
C39_Witness ==
  /\ cmd.res = "client-roles"
  /\ pc = "exit" /\ err = "client-not-found"
  /\ calls[Len(calls)].r = 2 /\ calls[Len(calls)].ans = "notfound"
  /\ \E k \in ItemCalls : calls[k].op = "create" /\ calls[k].ans = "ok" /\ calls[k].r = 1
  /\ <<targetRealms[1], ids[1]>> \in backend \ backend0

====
